---- MODULE Spec2Model ----
(***************************************************************************)
(* Model of the MathJax editor widget (class Editor).  The DOM is a heap   *)
(* of element nodes; the editor holds a root ($value), a cursor Position,  *)
(* a Tree component with a cached traversal path, the renderer's queue of  *)
(* in-flight typesets, the Geometry Map built from the rendered output,    *)
(* the focus flags, the registered listeners and the blink controller.     *)
(***************************************************************************)
EXTENDS Integers, Sequences, FiniteSets, TLC

\* ---------------------------------------------------------------- bounds
MaxNodes == 4
MaxInflight == 2
MaxCopies == 1

None == 0
Ids == 1..MaxNodes

VARIABLES
  dom,            \* the element heap: id -> [tag, kids, ed]
  value,          \* this.$value, the root element the editor edits
  position,       \* the cursor's Position (None or an element)
  treeRoot,       \* the root held by the Tree component
  treePath,       \* the traversal order cached by tree.update()
  elementJax,     \* TRUE once getElementJax has resolved
  inflight,       \* typesets submitted to the renderer, oldest first
  latestDone,     \* TRUE when the most recently issued typeset has resolved
  geom,           \* the Geometry Map: [snap, nodes]
  elValue,        \* this.$el.value
  updateEmitted,  \* TRUE once an 'update' event has been emitted
  focused,        \* this.focused
  domFocus,       \* TRUE while the input element has the browser's focus
  mouseAtDisplay, \* this.mouseAtDisplay
  caretShown,     \* the caret element is displayed (showElement/hideElement)
  listeners,      \* the listeners registered on display, input and window
  resizePending,  \* the debounce timer of handleResize is armed
  blinker,        \* state of the blink controller
  blinkOn,        \* blink phase of the caret
  attached,       \* the editor's container is in the document
  readonly,       \* options.readonly
  allowNewlines,  \* options.allowNewlines
  copies,         \* roots of the copies getValue() has handed to the caller
  lastOp,         \* the last handler or API call and what it did
  hist            \* the arrow-key moves made since the last other operation

vars == <<dom, value, position, treeRoot, treePath, elementJax, inflight,
          latestDone, geom, elValue, updateEmitted,
          focused, domFocus, mouseAtDisplay, caretShown, listeners,
          resizePending, blinker, blinkOn, attached, readonly,
          allowNewlines, copies, lastOp, hist>>

\* ------------------------------------------------------- sequence helpers
Range(s) == {s[i] : i \in 1..Len(s)}

IndexOf(s, x) == IF x \in Range(s) THEN CHOOSE i \in 1..Len(s) : s[i] = x ELSE 0

InsertAt(s, i, x) == SubSeq(s, 1, i - 1) \o <<x>> \o SubSeq(s, i, Len(s))

RemoveAt(s, i) == SubSeq(s, 1, i - 1) \o SubSeq(s, i + 1, Len(s))

RECURSIVE Flatten(_)
Flatten(ss) == IF ss = <<>> THEN <<>> ELSE Head(ss) \o Flatten(Tail(ss))

Min(S) == CHOOSE x \in S : \A y \in S : x <= y

\* ------------------------------------------------------------ the element heap
FreeNode == [tag |-> "free", kids |-> <<>>, ed |-> FALSE]

Node(t, k) == [tag |-> t, kids |-> k, ed |-> FALSE]

FreeIds(d) == {n \in Ids : d[n].tag = "free"}

createElement(d, n, t) == [d EXCEPT ![n] = Node(t, <<>>)]

\* tagName is upper case for elements of the HTML namespace and lower case
\* for elements of the MathML namespace; lcc lower-cases it
lcc(t) ==
  CASE t = "MATH" -> "math"
    [] t = "MROW" -> "mrow"
    [] t = "MI" -> "mi"
    [] OTHER -> t

lcc2(t, expected) == lcc(t) = expected

ParentOf(d, n) ==
  IF \E m \in Ids : n \in Range(d[m].kids)
  THEN CHOOSE m \in Ids : n \in Range(d[m].kids)
  ELSE None

RECURSIVE Desc(_, _)
Desc(d, n) ==
  IF n = None THEN {}
  ELSE {n} \cup UNION {Desc(d, d[n].kids[i]) : i \in 1..Len(d[n].kids)}

RECURSIVE Ancestors(_, _)
Ancestors(d, n) ==
  IF n = None THEN {}
  ELSE {n} \cup Ancestors(d, ParentOf(d, n))

prependElement(d, p, el) == [d EXCEPT ![p].kids = <<el>> \o @]

appendElement(d, p, el) == [d EXCEPT ![p].kids = Append(@, el)]

appendElementAfter(d, ref, el) ==
  LET par == ParentOf(d, ref)
  IN  [d EXCEPT ![par].kids = InsertAt(@, IndexOf(@, ref) + 1, el)]

removeElement(d, n) ==
  LET par == ParentOf(d, n)
  IN  IF par = None THEN d
      ELSE [d EXCEPT ![par].kids = RemoveAt(@, IndexOf(@, n))]

\* the markup of a subtree (outerHTML): tag names in lower case, children in
\* order, no node identity
RECURSIVE Ser(_, _)
Ser(d, n) ==
  <<lcc(d[n].tag), [i \in 1..Len(d[n].kids) |-> Ser(d, d[n].kids[i])]>>

\* isEditable: the element or one of its ancestors is marked editable
isEditable(d, p) == \E a \in Ancestors(d, p) : d[a].ed

\* ------------------------------------------------------------ the Tree
\* the traversal order over the caret-eligible elements below a root: a row
\* is the place at its start and comes before its children, any other
\* container comes after its children, the root itself is no place
RECURSIVE Walk(_, _)
Walk(d, n) ==
  LET inner == Flatten([i \in 1..Len(d[n].kids) |-> Walk(d, d[n].kids[i])])
  IN  CASE lcc(d[n].tag) = "math" -> inner
        [] lcc(d[n].tag) = "mrow" -> <<n>> \o inner
        [] OTHER -> inner \o <<n>>

Path(d, root) == <<None>> \o Walk(d, root)

\* the elements of a subtree, parents before children
RECURSIVE PreOrder(_, _)
PreOrder(d, n) ==
  <<n>> \o Flatten([i \in 1..Len(d[n].kids) |-> PreOrder(d, d[n].kids[i])])

RECURSIVE SortedSeq(_)
SortedSeq(S) ==
  IF S = {} THEN <<>> ELSE <<Min(S)>> \o SortedSeq(S \ {Min(S)})

\* getCleanCopy: a deep copy of the subtree at src built from new elements;
\* CopyRoot names the root of the copy
CopyRoot(d) == Min(FreeIds(d))

getCleanCopy(d, src) ==
  LET old == PreOrder(d, src)
      new == SortedSeq(FreeIds(d))
      to(x) == new[IndexOf(old, x)]
  IN  [n \in Ids |->
         IF \E x \in Range(old) : to(x) = n
         THEN LET x == CHOOSE y \in Range(old) : to(y) = n
              IN  [tag |-> d[x].tag,
                   kids |-> [i \in 1..Len(d[x].kids) |-> to(d[x].kids[i])],
                   ed |-> d[x].ed]
         ELSE d[n]]

CanCopy(d, src) == Cardinality(Desc(d, src)) <= Cardinality(FreeIds(d))

\* elements no reference reaches any more are released
Live(d, roots) == UNION {Desc(d, r) : r \in roots}

Sweep(d, roots) == [n \in Ids |-> IF n \in Live(d, roots) THEN d[n] ELSE FreeNode]

\* toDisplay: the markup handed to the renderer, with the placeholder when
\* the document is empty
Placeholder == <<"math", <<<<"mtext", <<>>>>>>>>

DisplayOf(markup) == IF markup[2] = <<>> THEN Placeholder ELSE markup

toDisplay(d, v) == DisplayOf(Ser(d, v))

\* ------------------------------------------------------------ lastOp
Op(name) == [op |-> name, threw |-> FALSE, ran |-> FALSE, stale |-> FALSE,
             rebuilt |-> FALSE, arg |-> None, mv |-> None]

\* ------------------------------------------------------------ Init
AllListeners ==
  { <<"display", "click", "handleClick">>,
    <<"input", "keyup", "handleInput">>,
    <<"input", "keydown", "handleInput">>,
    <<"input", "keydown", "handleKeydown">>,
    <<"input", "focus", "handleFocus">>,
    <<"input", "blur", "handleBlur">>,
    <<"display", "mouseenter", "handleMouseenter">>,
    <<"display", "mouseleave", "handleMouseleave">>,
    <<"display", "scroll", "handleResize">>,
    <<"window", "resize", "handleResize">> }

Init ==
  /\ dom = [n \in Ids |-> IF n = 1 THEN Node("math", <<>>) ELSE FreeNode]
  /\ value = 1
  /\ position = None
  /\ treeRoot = 1
  /\ treePath = <<None>>
  /\ elementJax = FALSE
  /\ inflight = <<>>
  /\ latestDone = FALSE
  /\ geom = [snap |-> <<>>, nodes |-> {}]
  /\ elValue = <<>>
  /\ updateEmitted = FALSE
  /\ focused = FALSE
  /\ domFocus = FALSE
  /\ mouseAtDisplay = FALSE
  /\ caretShown = FALSE
  /\ listeners = AllListeners
  /\ resizePending = FALSE
  /\ blinker = "Blinking"
  /\ blinkOn = TRUE
  /\ attached = TRUE
  /\ readonly \in BOOLEAN
  /\ allowNewlines \in BOOLEAN
  /\ copies = {}
  /\ lastOp = Op("constructor")
  /\ hist = <<>>

\* ------------------------------------------------------------ variable groups
FocusVars == <<focused, domFocus, caretShown>>

UpdVars == <<treeRoot, treePath, inflight, latestDone, elValue, updateEmitted>>

ConfVars == <<readonly, allowNewlines>>

BlinkVars == <<blinker, blinkOn>>

\* the renderer's queue is bounded
CanUpdate == ~elementJax \/ Len(inflight) < MaxInflight

\* ------------------------------------------------------------ helpers of the handlers
\* the heap after a handler: what nothing references is released, and the
\* Geometry Map keeps no entry for a released element
Heap(d1, g1) ==
  LET roots == {value', treeRoot'} \cup copies'
  IN  /\ dom' = Sweep(d1, roots)
      /\ geom' = [g1 EXCEPT !.nodes = @ \cap Live(d1, roots)]

\* a handleFocus that shows the caret without setting the flag
handleFocusNoFlag ==
  /\ focused' = focused
  /\ caretShown' = TRUE

\* Editor.handleFocus
handleFocus ==
  /\ focused' = TRUE
  /\ caretShown' = TRUE

\* Editor.focus: focusing the input dispatches its focus event, unless the
\* input already has the focus or is no longer in the document
focus ==
  IF attached /\ ~domFocus
  THEN domFocus' = TRUE /\ handleFocus
  ELSE UNCHANGED FocusVars

\* getValue handing out the live root instead of a copy
getValueAlias(d, v) == [dom |-> d, root |-> v]

\* Editor.getValue: the heap holding the value handed out, and its root
getValue(d, v) == [dom |-> getCleanCopy(d, v), root |-> CopyRoot(d)]

\* update() that skips the typeset while an earlier one is in flight
updateCoalesced(jax, d1, v1, scroll) ==
  IF ~jax \/ inflight # <<>>
  THEN UNCHANGED UpdVars
  ELSE /\ elValue' = Ser(d1, v1)
       /\ updateEmitted' = TRUE
       /\ treeRoot' = v1
       /\ treePath' = Path(d1, v1)
       /\ inflight' = Append(inflight,
                             [snap |-> toDisplay(d1, v1), scroll |-> scroll])
       /\ latestDone' = FALSE

\* Editor.update, called with the renderer handle, the heap and the root
\* the calling handler has produced
update(jax, d1, v1, scroll) ==
  IF ~jax
  THEN UNCHANGED UpdVars
  ELSE /\ elValue' = Ser(d1, v1)
       /\ updateEmitted' = TRUE
       /\ treeRoot' = v1
       /\ treePath' = Path(d1, v1)
       /\ inflight' = Append(inflight,
                             [snap |-> toDisplay(d1, v1), scroll |-> scroll])
       /\ latestDone' = FALSE

\* ------------------------------------------------------------ renderer
\* getElementJax resolves: the constructor's callback stores the handle and
\* calls update()
JaxReady ==
  /\ ~elementJax
  /\ elementJax' = TRUE
  /\ update(TRUE, dom, value, FALSE)
  /\ UNCHANGED <<value, position, copies>>
  /\ Heap(dom, geom)
  /\ lastOp' = Op("jaxReady")
  /\ hist' = <<>>
  /\ UNCHANGED <<FocusVars, mouseAtDisplay, listeners,
                 resizePending, BlinkVars, attached, ConfVars>>

\* an in-flight typeset is stale when a newer update has been issued
Stale(i) == latestDone \/ i < Len(inflight)

\* the completion callback of update(): the renderer has put the markup of
\* request i on the display; rendered.update() rebuilds the Geometry Map from
\* it, cursor.update() recomputes the caret, and the promise resolves, which
\* runs scrollToCaret for the update of an edit
Complete(i) ==
  /\ i \in 1..Len(inflight)
  /\ geom' = [snap |-> inflight[i].snap, nodes |-> Range(treePath) \ {None}]
  /\ inflight' = RemoveAt(inflight, i)
  /\ latestDone' = (latestDone \/ i = Len(inflight))
  /\ \/ UNCHANGED resizePending
     \/ /\ inflight[i].scroll
        /\ attached
        /\ <<"display", "scroll", "handleResize">> \in listeners
        /\ ~resizePending
        /\ resizePending' = TRUE
  /\ lastOp' = [Op("complete") EXCEPT !.stale = Stale(i), !.rebuilt = TRUE]
  /\ hist' = <<>>
  /\ UNCHANGED <<dom, value, position, treeRoot, treePath, elementJax,
                 elValue, updateEmitted, FocusVars, mouseAtDisplay,
                 listeners, BlinkVars, attached, ConfVars, copies>>

\* ------------------------------------------------------------ structural edits
\* an element that must stay in its parent: the row of a non-row container
Required(d, v, n) ==
  /\ lcc(d[n].tag) = "mrow"
  /\ ParentOf(d, n) \notin {None, v}
  /\ lcc(d[ParentOf(d, n)].tag) # "mrow"

\* the highest element a removal of n takes away: an emptied container that
\* is neither the root nor required goes with its only child
RECURSIVE CascadeTop(_, _, _)
CascadeTop(d, v, n) ==
  LET par == ParentOf(d, n)
  IN  IF par \notin {None, v} /\ Len(d[par].kids) = 1 /\ ~Required(d, v, par)
      THEN CascadeTop(d, v, par)
      ELSE n

\* the place before every element of the subtree at top
PlaceBefore(d, v, top) ==
  LET path == Path(d, v)
      first == Min({i \in 1..Len(path) : path[i] \in Desc(d, top)})
  IN  path[first - 1]

\* applyBackspace: removes the element the Position names
applyBackspace(d, v, p) ==
  IF p = None \/ p \notin Desc(d, v) \ {v}
  THEN [dom |-> d, pos |-> p, top |-> None]
  ELSE LET top == CascadeTop(d, v, p)
       IN  [dom |-> removeElement(d, top), pos |-> PlaceBefore(d, v, top),
            top |-> top]

\* applyDelete: removes the element that follows the Position
applyDelete(d, v, p) ==
  LET path == Path(d, v)
      i == IndexOf(path, p)
  IN  IF i = 0 \/ i = Len(path) \/ path[i + 1] \in Ancestors(d, p)
      THEN [dom |-> d, pos |-> p, top |-> None]
      ELSE LET top == CascadeTop(d, v, path[i + 1])
           IN  [dom |-> removeElement(d, top),
                pos |-> IF p \in Desc(d, top) THEN PlaceBefore(d, v, top)
                                               ELSE p,
                top |-> top]

\* a placement that puts the element before the Position's element
insertDomBefore(d, v, p, el) ==
  IF p = None
  THEN prependElement(d, v, el)
  ELSE CASE lcc(d[p].tag) = "mrow" -> prependElement(d, p, el)
         [] lcc(d[p].tag) = "math" -> appendElement(d, v, el)
         [] OTHER -> LET par == ParentOf(d, p)
                     IN  [d EXCEPT ![par].kids =
                            InsertAt(@, IndexOf(@, p), el)]

\* the placement of Editor.insert
insertDom(d, v, p, el) ==
  IF p = None
  THEN prependElement(d, v, el)
  ELSE CASE lcc(d[p].tag) = "mrow" -> prependElement(d, p, el)
         [] lcc(d[p].tag) = "math" -> appendElement(d, v, el)
         [] OTHER -> appendElementAfter(d, p, el)

\* a backspaceRemove that calls the removal of its twin handler
backspaceRemoveAsDelete(name) ==
  LET r == applyDelete(dom, value, position)
  IN  /\ position' = r.pos
      /\ update(elementJax, r.dom, value, TRUE)
      /\ UNCHANGED <<value, copies>>
      /\ Heap(r.dom, geom)
      /\ lastOp' = [Op(name) EXCEPT !.ran = TRUE, !.arg = position,
                                    !.mv = r.top]
      /\ hist' = <<>>
      /\ UNCHANGED <<elementJax, FocusVars, mouseAtDisplay,
                     listeners, resizePending, BlinkVars, attached, ConfVars>>

\* a backspaceRemove that drops the Position the removal returns
backspaceRemoveKeepsPosition(name) ==
  LET r == applyBackspace(dom, value, position)
  IN  /\ position' = position
      /\ update(elementJax, r.dom, value, TRUE)
      /\ UNCHANGED <<value, copies>>
      /\ Heap(r.dom, geom)
      /\ lastOp' = [Op(name) EXCEPT !.ran = TRUE, !.arg = position,
                                    !.mv = r.top]
      /\ hist' = <<>>
      /\ UNCHANGED <<elementJax, FocusVars, mouseAtDisplay,
                     listeners, resizePending, BlinkVars, attached, ConfVars>>

\* Editor.backspaceRemove
backspaceRemove(name) ==
  LET r == applyBackspace(dom, value, position)
  IN  /\ position' = r.pos
      /\ update(elementJax, r.dom, value, TRUE)
      /\ UNCHANGED <<value, copies>>
      /\ Heap(r.dom, geom)
      /\ lastOp' = [Op(name) EXCEPT !.ran = TRUE, !.arg = position,
                                    !.mv = r.top]
      /\ hist' = <<>>
      /\ UNCHANGED <<elementJax, FocusVars, mouseAtDisplay,
                     listeners, resizePending, BlinkVars, attached, ConfVars>>

\* Editor.deleteRemove
deleteRemove(name) ==
  LET r == applyDelete(dom, value, position)
  IN  /\ position' = r.pos
      /\ update(elementJax, r.dom, value, TRUE)
      /\ UNCHANGED <<value, copies>>
      /\ Heap(r.dom, geom)
      /\ lastOp' = [Op(name) EXCEPT !.ran = TRUE, !.arg = position,
                                    !.mv = r.top]
      /\ hist' = <<>>
      /\ UNCHANGED <<elementJax, FocusVars, mouseAtDisplay,
                     listeners, resizePending, BlinkVars, attached, ConfVars>>

\* Editor.insert of the element el of the heap d0, with the optional moveTo
insert(name, d0, el, moveTo) ==
  IF readonly /\ ~isEditable(dom, position)
  THEN /\ lastOp' = [Op(name) EXCEPT !.arg = el, !.mv = moveTo]
       /\ hist' = <<>>
       /\ UNCHANGED <<dom, value, position, geom, copies, UpdVars,
                      elementJax, FocusVars,
                      mouseAtDisplay, listeners, resizePending, BlinkVars,
                      attached, ConfVars>>
  ELSE LET d1 == insertDom(d0, value, position, el)
       IN  /\ position' = (IF moveTo # None THEN moveTo ELSE el)
           /\ focus
           /\ update(elementJax, d1, value, TRUE)
           /\ UNCHANGED <<value, copies>>
           /\ Heap(d1, geom)
           /\ lastOp' = [Op(name) EXCEPT !.ran = TRUE, !.arg = el,
                                         !.mv = moveTo]
           /\ hist' = <<>>
           /\ UNCHANGED <<elementJax, mouseAtDisplay,
                          listeners, resizePending, BlinkVars, attached,
                          ConfVars>>

\* Editor.insertNewline
insertNewline(name) ==
  IF \/ ~allowNewlines
     \/ /\ position # None
        /\ ~lcc2(dom[position].tag, "math")
        /\ ~lcc2(dom[ParentOf(dom, position)].tag, "math")
  THEN /\ lastOp' = Op(name)
       /\ hist' = <<>>
       /\ UNCHANGED <<dom, value, position, geom, copies, UpdVars,
                      elementJax, FocusVars,
                      mouseAtDisplay, listeners, resizePending, BlinkVars,
                      attached, ConfVars>>
  ELSE LET mspace == Min(FreeIds(dom))
       IN  insert(name, createElement(dom, mspace, "mspace"), mspace, None)

\* ------------------------------------------------------------ the cursor
\* Cursor.moveLeft and Cursor.moveRight over the Tree's traversal order
moveLeft(path, p) ==
  LET i == IndexOf(path, p)
  IN  IF i <= 1 THEN p ELSE path[i - 1]

moveRight(path, p) ==
  LET i == IndexOf(path, p)
  IN  IF i = 0 \/ i = Len(path) THEN p ELSE path[i + 1]

Last2(s) == IF Len(s) > 2 THEN Tail(s) ELSE s

cursorMove(key, name, to) ==
  /\ position' = to
  /\ lastOp' = [Op(name) EXCEPT !.ran = TRUE]
  /\ hist' = Last2(Append(hist, [key |-> key, from |-> position, to |-> to]))
  /\ UNCHANGED <<dom, value, geom, copies, UpdVars, elementJax, FocusVars, mouseAtDisplay, listeners, resizePending,
                 BlinkVars, attached, ConfVars>>

\* CursorMover.click: the places the hit-test can answer
ClickTargets ==
  {None} \cup (geom.nodes \cap Range(treePath) \cap Desc(dom, value))

\* ------------------------------------------------------------ event handlers
Listening(target, type, handler) == <<target, type, handler>> \in listeners

\* Editor.handleClick
handleClick(to) ==
  /\ focus
  /\ position' = to
  /\ blinker' = "FrozenVisible"
  /\ blinkOn' = TRUE
  /\ lastOp' = [Op("handleClick") EXCEPT
                  !.stale = (geom.snap # toDisplay(dom, value)), !.arg = to]
  /\ hist' = <<>>
  /\ UNCHANGED <<dom, value, geom, copies, UpdVars, elementJax, mouseAtDisplay, listeners, resizePending, attached,
                 ConfVars>>

ClickEvent ==
  /\ attached
  /\ Listening("display", "click", "handleClick")
  /\ \E to \in ClickTargets : handleClick(to)

\* the input gets the browser's focus: Editor.handleFocus
FocusEvent ==
  /\ attached
  /\ ~domFocus
  /\ Listening("input", "focus", "handleFocus")
  /\ domFocus' = TRUE
  /\ handleFocus
  /\ lastOp' = [Op("handleFocus") EXCEPT !.ran = TRUE]
  /\ hist' = <<>>
  /\ UNCHANGED <<dom, value, position, geom, copies, UpdVars, elementJax,
                 mouseAtDisplay, listeners, resizePending,
                 BlinkVars, attached, ConfVars>>

\* the input loses the browser's focus: Editor.handleBlur
BlurEvent ==
  /\ attached
  /\ domFocus
  /\ Listening("input", "blur", "handleBlur")
  /\ domFocus' = FALSE
  /\ IF mouseAtDisplay
     THEN UNCHANGED <<focused, caretShown>> /\ lastOp' = Op("handleBlur")
     ELSE /\ focused' = FALSE
          /\ caretShown' = FALSE
          /\ lastOp' = [Op("handleBlur") EXCEPT !.ran = TRUE]
  /\ hist' = <<>>
  /\ UNCHANGED <<dom, value, position, geom, copies, UpdVars, elementJax,
                 mouseAtDisplay, listeners, resizePending,
                 BlinkVars, attached, ConfVars>>

\* Editor.handleMouseenter and Editor.handleMouseleave
MouseEvent(type, handler, over) ==
  /\ attached
  /\ Listening("display", type, handler)
  /\ mouseAtDisplay' = over
  /\ lastOp' = [Op(handler) EXCEPT !.ran = TRUE]
  /\ hist' = <<>>
  /\ UNCHANGED <<dom, value, position, geom, copies, UpdVars, elementJax,
                 FocusVars, listeners, resizePending,
                 BlinkVars, attached, ConfVars>>

MouseenterEvent == MouseEvent("mouseenter", "handleMouseenter", TRUE)

MouseleaveEvent == MouseEvent("mouseleave", "handleMouseleave", FALSE)

\* a keyup on the input: Editor.handleInput clears the input's buffer
KeyupEvent ==
  /\ attached
  /\ domFocus
  /\ Listening("input", "keyup", "handleInput")
  /\ lastOp' = [Op("handleInput") EXCEPT !.ran = TRUE]
  /\ hist' = <<>>
  /\ UNCHANGED <<dom, value, position, geom, copies, UpdVars, elementJax,
                 FocusVars, mouseAtDisplay, listeners,
                 resizePending, BlinkVars, attached, ConfVars>>

\* the two arrow keys wired to the same move
handleKeydownSwapped(which) ==
  CASE which = 8 -> backspaceRemove("backspaceRemove")
    [] which = 13 -> insertNewline("insertNewline")
    [] which = 37 -> cursorMove(37, "moveLeft", moveLeft(treePath, position))
    [] which = 39 -> cursorMove(39, "moveLeft", moveLeft(treePath, position))
    [] which = 46 -> deleteRemove("deleteRemove")
    [] OTHER -> /\ lastOp' = Op("handleKeydown")
                /\ hist' = <<>>
                /\ UNCHANGED <<dom, value, position, geom, copies, UpdVars,
                               elementJax, FocusVars,
                               mouseAtDisplay, listeners, resizePending,
                               BlinkVars, attached, ConfVars>>

\* Editor.handleKeydown
Keys == {8, 13, 37, 39, 46, 65}

handleKeydown(which) ==
  CASE which = 8 -> backspaceRemove("backspaceRemove")
    [] which = 13 -> insertNewline("insertNewline")
    [] which = 37 -> cursorMove(37, "moveLeft", moveLeft(treePath, position))
    [] which = 39 -> cursorMove(39, "moveRight", moveRight(treePath, position))
    [] which = 46 -> deleteRemove("deleteRemove")
    [] OTHER -> /\ lastOp' = Op("handleKeydown")
                /\ hist' = <<>>
                /\ UNCHANGED <<dom, value, position, geom, copies, UpdVars,
                               elementJax, FocusVars,
                               mouseAtDisplay, listeners, resizePending,
                               BlinkVars, attached, ConfVars>>

\* a keydown on the input: handleInput, then handleKeydown
KeydownEvent(keys) ==
  /\ attached
  /\ domFocus
  /\ Listening("input", "keydown", "handleKeydown")
  /\ CanUpdate
  /\ \E which \in keys :
       /\ which = 13 => FreeIds(dom) # {}
       /\ handleKeydown(which)

\* a resize of the window or a scroll of the display arms the debounced
\* handleResize
ResizeEvent ==
  /\ \/ Listening("window", "resize", "handleResize")
     \/ attached /\ Listening("display", "scroll", "handleResize")
  /\ ~resizePending
  /\ resizePending' = TRUE
  /\ lastOp' = Op("resize")
  /\ hist' = <<>>
  /\ UNCHANGED <<dom, value, position, geom, copies, UpdVars, elementJax,
                 FocusVars, mouseAtDisplay, listeners,
                 BlinkVars, attached, ConfVars>>

\* the debounce timer fires: Editor.handleResize
handleResize ==
  /\ resizePending
  /\ CanUpdate
  /\ resizePending' = FALSE
  /\ update(elementJax, dom, value, FALSE)
  /\ UNCHANGED <<value, position, copies>>
  /\ Heap(dom, geom)
  /\ lastOp' = [Op("handleResize") EXCEPT !.ran = TRUE]
  /\ hist' = <<>>
  /\ UNCHANGED <<elementJax, FocusVars, mouseAtDisplay,
                 listeners, BlinkVars, attached, ConfVars>>

\* ------------------------------------------------------------ the public API
\* the elements a caller inserts: a symbol, a row, or a root sign with its
\* row; moveTo is the row of the root sign, the document root, or absent
InsertShapes ==
  { <<"mi", "none">>, <<"mi", "root">>, <<"mrow", "none">>,
    <<"msqrt", "none">>, <<"msqrt", "inner">> }

Insert(shapes) ==
  /\ CanUpdate
  /\ \E sh \in shapes :
       /\ Cardinality(FreeIds(dom)) >= (IF sh[1] = "msqrt" THEN 2 ELSE 1)
       /\ LET el == Min(FreeIds(dom))
              in == Min(FreeIds(dom) \ {el})
              d0 == IF sh[1] = "msqrt"
                    THEN [createElement(createElement(dom, in, "mrow"),
                                        el, "msqrt") EXCEPT ![el].kids = <<in>>]
                    ELSE createElement(dom, el, sh[1])
              moveTo == CASE sh[2] = "inner" -> in
                          [] sh[2] = "root" -> value
                          [] OTHER -> None
          IN  insert("insert", d0, el, moveTo)

InsertNewline ==
  /\ CanUpdate
  /\ FreeIds(dom) # {}
  /\ insertNewline("insertNewline")

BackspaceRemove == CanUpdate /\ backspaceRemove("backspaceRemove")

DeleteRemove == CanUpdate /\ deleteRemove("deleteRemove")

\* the values a caller hands to setValue: an element or a markup string
Val(str, nodeType, tagName, body) ==
  [str |-> str, nodeType |-> nodeType, tagName |-> tagName, body |-> body]

SetValueInputs ==
  { Val(FALSE, 1, "math", "empty"),
    Val(FALSE, 1, "MATH", "mi"),
    Val(TRUE, 1, "math", "edrow"),
    Val(FALSE, 1, "mrow", "empty"),
    Val(FALSE, 3, "#text", "empty"),
    Val(TRUE, 1, "mi", "empty") }

\* toDom: the element a markup string parses to
toDom(in) == [in EXCEPT !.str = FALSE]

NodesOf(in) == IF in.body = "empty" THEN 1 ELSE 2

\* the heap with the element a value denotes, and its root
Build(d, in) ==
  LET root == Min(FreeIds(d))
      kid == Min(FreeIds(d) \ {root})
      d1 == createElement(d, root, in.tagName)
  IN  CASE in.body = "mi" ->
             [dom |-> [createElement(d1, kid, "mi") EXCEPT
                         ![root].kids = <<kid>>],
              root |-> root]
        [] in.body = "edrow" ->
             [dom |-> [createElement(d1, kid, "mrow") EXCEPT
                         ![root].kids = <<kid>>, ![kid].ed = TRUE],
              root |-> root]
        [] OTHER -> [dom |-> d1, root |-> root]

\* setValue that leaves the Position where it was
setValueKeepsPosition(in) ==
  LET v0 == IF in.str THEN toDom(in) ELSE in
  IN  IF v0.nodeType # 1 \/ ~lcc2(v0.tagName, "math")
      THEN /\ lastOp' = [Op("setValue") EXCEPT !.threw = TRUE]
           /\ hist' = <<>>
           /\ UNCHANGED <<dom, value, position, geom, copies, UpdVars,
                          elementJax, FocusVars,
                          mouseAtDisplay, listeners, resizePending,
                          BlinkVars, attached, ConfVars>>
      ELSE LET b == Build(dom, v0)
           IN  /\ value' = b.root
               /\ position' = position
               /\ update(elementJax, b.dom, b.root, FALSE)
               /\ UNCHANGED copies
               /\ Heap(b.dom, geom)
               /\ lastOp' = [Op("setValue") EXCEPT !.ran = TRUE,
                                                   !.arg = b.root]
               /\ hist' = <<>>
               /\ UNCHANGED <<elementJax, FocusVars,
                              mouseAtDisplay, listeners, resizePending,
                              BlinkVars, attached, ConfVars>>

\* setValue that stores the value before it validates it
setValueUnchecked(in) ==
  LET v0 == IF in.str THEN toDom(in) ELSE in
      b == Build(dom, v0)
  IN  IF v0.nodeType # 1 \/ ~lcc2(v0.tagName, "math")
      THEN /\ value' = b.root
           /\ position' = None
           /\ UNCHANGED <<copies, UpdVars>>
           /\ Heap(b.dom, geom)
           /\ lastOp' = [Op("setValue") EXCEPT !.threw = TRUE]
           /\ hist' = <<>>
           /\ UNCHANGED <<elementJax, FocusVars, mouseAtDisplay, listeners,
                          resizePending, BlinkVars, attached, ConfVars>>
      ELSE /\ value' = b.root
           /\ position' = None
           /\ update(elementJax, b.dom, b.root, FALSE)
           /\ UNCHANGED copies
           /\ Heap(b.dom, geom)
           /\ lastOp' = [Op("setValue") EXCEPT !.ran = TRUE, !.arg = b.root]
           /\ hist' = <<>>
           /\ UNCHANGED <<elementJax, FocusVars, mouseAtDisplay, listeners,
                          resizePending, BlinkVars, attached, ConfVars>>

\* Editor.setValue
setValue(in) ==
  LET v0 == IF in.str THEN toDom(in) ELSE in
  IN  IF v0.nodeType # 1 \/ ~lcc2(v0.tagName, "math")
      THEN /\ lastOp' = [Op("setValue") EXCEPT !.threw = TRUE]
           /\ hist' = <<>>
           /\ UNCHANGED <<dom, value, position, geom, copies, UpdVars,
                          elementJax, FocusVars,
                          mouseAtDisplay, listeners, resizePending,
                          BlinkVars, attached, ConfVars>>
      ELSE LET b == Build(dom, v0)
           IN  /\ value' = b.root
               /\ position' = None
               /\ update(elementJax, b.dom, b.root, FALSE)
               /\ UNCHANGED copies
               /\ Heap(b.dom, geom)
               /\ lastOp' = [Op("setValue") EXCEPT !.ran = TRUE,
                                                   !.arg = b.root]
               /\ hist' = <<>>
               /\ UNCHANGED <<elementJax, FocusVars,
                              mouseAtDisplay, listeners, resizePending,
                              BlinkVars, attached, ConfVars>>

SetValue(inputs) ==
  /\ CanUpdate
  /\ \E in \in inputs :
       /\ Cardinality(FreeIds(dom)) >= NodesOf(in)
       /\ setValue(in)

\* a caller takes the editor's value
GetValue ==
  /\ Cardinality(copies) < MaxCopies
  /\ CanCopy(dom, value)
  /\ LET r == getValue(dom, value)
     IN  /\ copies' = copies \cup {r.root}
         /\ UNCHANGED <<value, treeRoot>>
         /\ Heap(r.dom, geom)
         /\ lastOp' = [Op("getValue") EXCEPT !.ran = TRUE, !.arg = r.root]
  /\ hist' = <<>>
  /\ UNCHANGED <<position, treePath, inflight, latestDone, elValue,
                 updateEmitted, elementJax, FocusVars,
                 mouseAtDisplay, listeners, resizePending, BlinkVars,
                 attached, ConfVars>>

\* Editor.toTex: arg is the element handed to the converter
toTexArg(d, v) == v

ToTex ==
  /\ lastOp' = [Op("toTex") EXCEPT !.ran = TRUE, !.arg = toTexArg(dom, value)]
  /\ hist' = <<>>
  /\ UNCHANGED <<dom, value, position, geom, copies, UpdVars, elementJax,
                 FocusVars, mouseAtDisplay, listeners,
                 resizePending, BlinkVars, attached, ConfVars>>

\* Editor.focus
Focus ==
  /\ focus
  /\ lastOp' = Op("focus")
  /\ hist' = <<>>
  /\ UNCHANGED <<dom, value, position, geom, copies, UpdVars, elementJax,
                 mouseAtDisplay, listeners, resizePending,
                 BlinkVars, attached, ConfVars>>

\* a destroy that leaves the blink controller running
DestroyKeepsBlinker ==
  /\ blinker' = blinker
  /\ blinkOn' = blinkOn
  /\ attached' = FALSE
  /\ domFocus' = FALSE
  /\ listeners' = listeners \ {<<"window", "resize", "handleResize">>}
  /\ lastOp' = [Op("destroy") EXCEPT !.ran = TRUE]
  /\ hist' = <<>>
  /\ UNCHANGED <<dom, value, position, geom, copies, UpdVars, elementJax,
                 focused, caretShown, mouseAtDisplay,
                 resizePending, ConfVars>>

\* Editor.destroy: the blink controller stops, the container leaves the
\* document (the input loses the focus with it), and the window's resize
\* listener is removed
Destroy ==
  /\ blinker' = "Stopped"
  /\ blinkOn' = blinkOn
  /\ attached' = FALSE
  /\ domFocus' = FALSE
  /\ listeners' = listeners \ {<<"window", "resize", "handleResize">>}
  /\ lastOp' = [Op("destroy") EXCEPT !.ran = TRUE]
  /\ hist' = <<>>
  /\ UNCHANGED <<dom, value, position, geom, copies, UpdVars, elementJax,
                 focused, caretShown, mouseAtDisplay,
                 resizePending, ConfVars>>

\* ------------------------------------------------------------ the caller's copies
\* the caller changes a value getValue() returned: it drops the first child
\* of the copy's root, or appends a new symbol to it
CallerMutateCopy ==
  /\ \E c \in copies :
       \/ /\ dom[c].kids # <<>>
          /\ UNCHANGED <<value, treeRoot, copies>>
          /\ Heap(removeElement(dom, dom[c].kids[1]), geom)
       \/ /\ FreeIds(dom) # {}
          /\ UNCHANGED <<value, treeRoot, copies>>
          /\ LET n == Min(FreeIds(dom))
             IN  Heap(appendElement(createElement(dom, n, "mi"), c, n), geom)
  /\ lastOp' = [Op("callerMutate") EXCEPT !.ran = TRUE]
  /\ hist' = <<>>
  /\ UNCHANGED <<position, treePath, inflight, latestDone, elValue,
                 updateEmitted, elementJax, FocusVars,
                 mouseAtDisplay, listeners, resizePending, BlinkVars,
                 attached, ConfVars>>

\* the caller lets go of a value getValue() returned
CallerDropCopy ==
  /\ \E c \in copies :
       /\ copies' = copies \ {c}
       /\ UNCHANGED <<value, treeRoot>>
       /\ Heap(dom, geom)
  /\ lastOp' = Op("callerDrop")
  /\ hist' = <<>>
  /\ UNCHANGED <<position, treePath, inflight, latestDone, elValue,
                 updateEmitted, elementJax, FocusVars,
                 mouseAtDisplay, listeners, resizePending, BlinkVars,
                 attached, ConfVars>>

\* ------------------------------------------------------------ the blink controller
\* the blink timer toggles the caret
BlinkTick ==
  /\ blinker = "Blinking"
  /\ blinkOn' = ~blinkOn
  /\ blinker' = blinker
  /\ lastOp' = Op("blink")
  /\ hist' = <<>>
  /\ UNCHANGED <<dom, value, position, geom, copies, UpdVars, elementJax,
                 FocusVars, mouseAtDisplay, listeners,
                 resizePending, attached, ConfVars>>

\* the quiet period after freeze() has elapsed
QuietElapsed ==
  /\ blinker = "FrozenVisible"
  /\ blinker' = "Blinking"
  /\ blinkOn' = blinkOn
  /\ lastOp' = Op("resume")
  /\ hist' = <<>>
  /\ UNCHANGED <<dom, value, position, geom, copies, UpdVars, elementJax,
                 FocusVars, mouseAtDisplay, listeners,
                 resizePending, attached, ConfVars>>

\* ------------------------------------------------------------ specification
Next ==
  \/ JaxReady
  \/ \E i \in 1..MaxInflight : Complete(i)
  \/ ClickEvent
  \/ FocusEvent
  \/ BlurEvent
  \/ MouseenterEvent
  \/ MouseleaveEvent
  \/ KeyupEvent
  \/ KeydownEvent(Keys)
  \/ ResizeEvent
  \/ handleResize
  \/ Insert(InsertShapes)
  \/ InsertNewline
  \/ BackspaceRemove
  \/ DeleteRemove
  \/ SetValue(SetValueInputs)
  \/ GetValue
  \/ ToTex
  \/ Focus
  \/ Destroy
  \/ CallerMutateCopy
  \/ CallerDropCopy
  \/ BlinkTick
  \/ QuietElapsed

Spec == Init /\ [][Next]_vars

\* editing with the keyboard and the API, the renderer answering
\* the renderer has answered every typeset
Quiet == inflight = <<>>

\* the editor constructed with the default options
InitDefault == Init /\ ~readonly /\ ~allowNewlines

SymbolOnly == {<<"mi", "none">>}

ArrowKeys == {37, 39, 65}

\* inserting at every kind of Position, with and without options.readonly
Template == {Val(TRUE, 1, "math", "edrow")}

NextInsert ==
  \/ JaxReady
  \/ \E i \in 1..MaxInflight : Complete(i)
  \/ Quiet /\ ClickEvent
  \/ Quiet /\ Insert(InsertShapes)
  \/ Quiet /\ SetValue(Template)

InitNoNewlines == Init /\ ~allowNewlines

SpecInsert == InitNoNewlines /\ [][NextInsert]_vars

\* moving the caret with the arrow keys over the trees the API builds
NextMove ==
  \/ JaxReady
  \/ \E i \in 1..MaxInflight : Complete(i)
  \/ Quiet /\ Insert(InsertShapes)
  \/ Quiet /\ KeydownEvent(ArrowKeys)

SpecMove == InitDefault /\ [][NextMove]_vars

\* a caller holding values getValue() returned while the editor edits
NextCopy ==
  \/ JaxReady
  \/ \E i \in 1..MaxInflight : Complete(i)
  \/ Quiet /\ Insert(SymbolOnly)
  \/ Quiet /\ BackspaceRemove
  \/ Quiet /\ SetValue(SetValueInputs)
  \/ GetValue
  \/ ToTex
  \/ CallerMutateCopy
  \/ CallerDropCopy

SpecCopy == InitDefault /\ [][NextCopy]_vars

\* focus, pointer, timers and teardown
NextLife ==
  \/ JaxReady
  \/ \E i \in 1..MaxInflight : Complete(i)
  \/ ClickEvent
  \/ FocusEvent
  \/ BlurEvent
  \/ MouseenterEvent
  \/ MouseleaveEvent
  \/ KeyupEvent
  \/ ResizeEvent
  \/ handleResize
  \/ Focus
  \/ Destroy
  \/ BlinkTick
  \/ QuietElapsed

SpecLife == InitDefault /\ [][NextLife]_vars

\* edits and resizes while typesets are in flight
NextAsync ==
  \/ JaxReady
  \/ \E i \in 1..MaxInflight : Complete(i)
  \/ Insert(SymbolOnly)
  \/ BackspaceRemove
  \/ DeleteRemove
  \/ ResizeEvent
  \/ handleResize

SpecAsync == InitDefault /\ [][NextAsync]_vars

\* replacing the value, with valid and invalid arguments
NextValue ==
  \/ JaxReady
  \/ \E i \in 1..MaxInflight : Complete(i)
  \/ Quiet /\ Insert(SymbolOnly)
  \/ SetValue(SetValueInputs)

SpecValue == InitDefault /\ [][NextValue]_vars

\* a document with one symbol, and a row that is no document
EditInputs == {Val(FALSE, 1, "MATH", "mi"), Val(FALSE, 1, "mrow", "empty")}

\* the editing operations under every setting of the two options, each one
\* issued once the previous typesetting has completed
NextEdits ==
  \/ JaxReady
  \/ \E i \in 1..MaxInflight : Complete(i)
  \/ Quiet /\ Insert(InsertShapes)
  \/ Quiet /\ InsertNewline
  \/ Quiet /\ BackspaceRemove
  \/ Quiet /\ DeleteRemove
  \/ Quiet /\ SetValue(EditInputs)

SpecEdits == Init /\ [][NextEdits]_vars

\* the shapes a removal can cascade through: a symbol, a row and a root
\* with its required row
Containers == {<<"mi", "none">>, <<"mrow", "none">>, <<"msqrt", "inner">>}

\* a symbol, and a root sign with the caret moved into its row
SymbolOrSqrt == {<<"mi", "none">>, <<"msqrt", "inner">>}

\* removals at every place a click can put the caret
NextRemove ==
  \/ JaxReady
  \/ \E i \in 1..MaxInflight : Complete(i)
  \/ Quiet /\ ClickEvent
  \/ Quiet /\ Insert(SymbolOrSqrt)
  \/ Quiet /\ BackspaceRemove
  \/ Quiet /\ DeleteRemove

SpecRemove == InitDefault /\ [][NextRemove]_vars

\* backspaces at every place a click can put the caret in a tree of nested
\* containers
NextCascade ==
  \/ JaxReady
  \/ \E i \in 1..MaxInflight : Complete(i)
  \/ Quiet /\ ClickEvent
  \/ Quiet /\ Insert(Containers)
  \/ Quiet /\ BackspaceRemove

SpecCascade == InitDefault /\ [][NextCascade]_vars

\* clicks and arrow keys at any moment of an edit's typesetting
NextStale ==
  \/ JaxReady
  \/ \E i \in 1..MaxInflight : Complete(i)
  \/ Insert(SymbolOnly)
  \/ BackspaceRemove
  \/ ClickEvent
  \/ KeydownEvent({37, 39})

SpecStale == InitDefault /\ [][NextStale]_vars

\* ------------------------------------------------------------ sanity
TypeOK ==
  /\ value \in Ids
  /\ position \in Ids \cup {None}
  /\ Len(inflight) <= MaxInflight
  /\ Cardinality(copies) <= MaxCopies

\* the Position is None or an element of the tree
PositionInTree == position = None \/ position \in Desc(dom, value)

\* ------------------------------------------------------------ claims
EditOps == {"insert", "backspaceRemove", "deleteRemove"}

HandlerOps == {"handleClick", "handleFocus", "handleBlur", "handleInput",
               "handleKeydown", "handleMouseenter", "handleMouseleave",
               "handleResize"}

\* C1: the completion of a typeset that a newer update() has superseded is
\* discarded, it rebuilds neither the Geometry Map nor the caret, and once
\* every typeset has resolved the Geometry Map shows the markup the most
\* recently issued update() submitted
C1_StaleTypesetDiscarded ==
  /\ (lastOp.op = "complete" /\ lastOp.stale) => ~lastOp.rebuilt
  /\ (elementJax /\ Quiet) => geom.snap = DisplayOf(elValue)

\* C2: setValue with a value that is not a math element throws and leaves
\* the root, the Position, the Tree, the Geometry Map and the renderer's
\* queue as they were; when it does not throw the new root is a math element
C2_SetValueRejectsAtomically ==
  [][ /\ (lastOp'.op = "setValue" /\ lastOp'.threw) =>
           UNCHANGED <<dom, value, position, treeRoot, treePath, geom,
                       inflight, latestDone, elValue, updateEmitted, copies>>
      /\ (lastOp'.op = "setValue" /\ ~lastOp'.threw) =>
           lcc(dom'[value'].tag) = "math" ]_vars

C2_Witness ==
  /\ lastOp.op = "setValue"
  /\ lastOp.threw
  /\ elementJax
  /\ dom[value].kids # <<>>
  /\ position # None

\* C3: the completion of a typeset that resolves after destroy() rebuilds
\* neither the Geometry Map nor the caret
C3_CompletionAfterDestroyIsNoOp ==
  (lastOp.op = "complete" /\ ~attached) => ~lastOp.rebuilt

\* C4: after destroy() the blink controller is stopped, no listener the
\* constructor registered is left, and no handler of the editor runs
C4_DestroyDetachesEverything ==
  ~attached =>
    /\ blinker = "Stopped"
    /\ listeners = {}
    /\ ~resizePending
    /\ lastOp.op \notin HandlerOps

\* the placement rule of insert, for the step that inserted lastOp'.arg
Placed ==
  LET el == lastOp'.arg
      p == position
  IN  /\ p = None => dom'[value].kids = <<el>> \o dom[value].kids
      /\ (p # None /\ lcc(dom[p].tag) = "mrow") =>
           dom'[p].kids = <<el>> \o dom[p].kids
      /\ (p # None /\ lcc(dom[p].tag) = "math") =>
           dom'[value].kids = Append(dom[value].kids, el)
      /\ (p # None /\ lcc(dom[p].tag) \notin {"mrow", "math"}) =>
           LET par == ParentOf(dom, p)
               i == IndexOf(dom[par].kids, p)
           IN  /\ Len(dom'[par].kids) = Len(dom[par].kids) + 1
               /\ dom'[par].kids[i] = p
               /\ dom'[par].kids[i + 1] = el
               /\ RemoveAt(dom'[par].kids, i + 1) = dom[par].kids
      /\ position' = (IF lastOp'.mv # None THEN lastOp'.mv ELSE el)
      /\ value' = value

\* C5 as stated: every insert places the element by the kind of the
\* Position (none: first in the root; row: first in the row; root: last in
\* the root; otherwise: right after the Position's element) and moves the
\* Position to moveTo, or to the element
C5_InsertPlaces == [][lastOp'.op = "insert" => Placed]_vars

\* C5 amended: insert places the element so unless the editor is readonly
\* and the Position is not editable, in which case it changes nothing
C5_InsertPlacesUnlessReadonly ==
  [][lastOp'.op = "insert" =>
       IF readonly /\ ~isEditable(dom, position)
       THEN UNCHANGED <<dom, value, position>>
       ELSE Placed]_vars

C5_Witness ==
  /\ lastOp.op = "insert"
  /\ lastOp.ran
  /\ readonly
  /\ ParentOf(dom, lastOp.arg) \notin {None, value}
  /\ dom[ParentOf(dom, lastOp.arg)].kids[1] = lastOp.arg
  /\ Len(dom[ParentOf(dom, lastOp.arg)].kids) >= 2

C7_EditsIssueUpdate ==
  [][(lastOp'.op \in EditOps /\ lastOp'.ran /\ inflight # <<>>) =>
       /\ Len(inflight') = Len(inflight) + 1
       /\ SubSeq(inflight', 1, Len(inflight)) = inflight
       /\ inflight'[Len(inflight')].snap = toDisplay(dom', value')
       /\ ~latestDone']_vars

C7_Witness ==
  /\ lastOp.op \in EditOps
  /\ lastOp.ran
  /\ Len(inflight) >= 2
  /\ inflight[Len(inflight)].snap # inflight[Len(inflight) - 1].snap

\* C8: as long as the renderer has not initialised the caret is not shown,
\* no typeset is submitted, no 'update' event is emitted and no call throws
C8_InertWithoutRenderer ==
  ~elementJax =>
    /\ ~caretShown
    /\ inflight = <<>>
    /\ ~updateEmitted
    /\ ~lastOp.threw

\* C9: the element toTex() hands to the converter is not an element of the
\* editor's tree
C9_ToTexGetsCleanCopy ==
  lastOp.op = "toTex" => lastOp.arg \notin Desc(dom, value)

\* C10: over the Tree's traversal order, a move right undoes a move left
\* except from the first place and a move left undoes a move right except
\* from the last place; the first place is "none", a move left from it and a
\* move right from the last place change nothing; and the arrow keys make
\* these moves: left then right, or right then left, comes back
C10_MovesInvert ==
  /\ treePath[1] = None
  /\ \A i \in 1..Len(treePath) :
       LET p == treePath[i]
       IN  /\ i > 1 => moveRight(treePath, moveLeft(treePath, p)) = p
           /\ i < Len(treePath) =>
                moveLeft(treePath, moveRight(treePath, p)) = p
           /\ i = 1 => moveLeft(treePath, p) = p
           /\ i = Len(treePath) => moveRight(treePath, p) = p
  /\ (Len(hist) = 2 /\ hist[1].key = 37 /\ hist[2].key = 39
        /\ hist[1].from # treePath[1]) => hist[2].to = hist[1].from
  /\ (Len(hist) = 2 /\ hist[1].key = 39 /\ hist[2].key = 37
        /\ hist[1].from # treePath[Len(treePath)]) => hist[2].to = hist[1].from

C10_Witness ==
  /\ Len(hist) = 2
  /\ hist[1].key = 37
  /\ hist[2].key = 39
  /\ hist[1].from # None
  /\ hist[1].to # hist[1].from
  /\ hist[2].to = hist[1].from
  /\ Len(treePath) >= 4

\* the tree of the value: its markup and its root
SameTree == Ser(dom', value') = Ser(dom, value) /\ value' = value

\* C11: a backspace with nothing before the caret (the Position is "none") and
\* a delete with nothing after it (the Position is the last place of the
\* traversal) leave the tree and the Position as they were and raise no error
C11_RemovalAtEdgeIsNoOp ==
  [][ /\ (lastOp'.op = "backspaceRemove" /\ position = None) =>
           (SameTree /\ position' = position /\ ~lastOp'.threw)
      /\ (/\ lastOp'.op = "deleteRemove"
          /\ LET path == Path(dom, value) IN position = path[Len(path)]) =>
           (SameTree /\ position' = position /\ ~lastOp'.threw) ]_vars

\* a removal at the edge of a tree that has elements has run
C11_Witness ==
  /\ lastOp.op \in {"backspaceRemove", "deleteRemove"}
  /\ lastOp.ran
  /\ lastOp.mv = None
  /\ dom[value].kids # <<>>
  /\ lastOp.arg = position
  /\ \/ lastOp.op = "backspaceRemove" /\ position = None
     \/ lastOp.op = "deleteRemove"
          /\ position = Path(dom, value)[Len(Path(dom, value))]

\* C12: a backspace that removes the only child of a container that is
\* neither the root nor a required slot removes the container as well; a
\* backspace that removes the only child of the root leaves the root, empty,
\* and the Position "none"
C12_BackspaceCascades ==
  [][ (/\ lastOp'.op = "backspaceRemove"
       /\ position \in Desc(dom, value) \ {value}
       /\ Len(dom[ParentOf(dom, position)].kids) = 1) =>
      LET par == ParentOf(dom, position)
      IN  /\ par = value =>
               /\ value' = value
               /\ dom'[value] = [dom[value] EXCEPT !.kids = <<>>]
               /\ position' = None
          /\ (par # value /\ ~Required(dom, value, par)) =>
               /\ value' = value
               /\ par \notin Desc(dom', value)
               /\ position \notin Desc(dom', value)
               /\ position' \in {None} \cup Desc(dom', value) ]_vars

\* a backspace has taken a container away together with its only child
C12_Witness ==
  /\ lastOp.op = "backspaceRemove"
  /\ lastOp.arg # None
  /\ lastOp.mv \notin {None, lastOp.arg}
  /\ position \in {None} \cup Desc(dom, value)

\* C13: after insert, backspace, delete, insertNewline and setValue in any
\* order the Position is "none" or an element of the editor's current tree
C13_PositionAttached ==
  position = None \/ position \in Desc(dom, value)

\* a removal has moved the Position to an element that is still in the tree
C13_Witness ==
  /\ lastOp.op \in {"backspaceRemove", "deleteRemove"}
  /\ lastOp.mv # None
  /\ position # None
  /\ position \in Desc(dom, value) \ {value}

\* C14: a click is never hit-tested against a Geometry Map built from markup
\* older than the tree's: between a mutation and the completion of the
\* rebuild that follows it the map is not used
C14_NoStaleGeometryUse ==
  (lastOp.op = "handleClick" /\ geom.snap # <<>>) => ~lastOp.stale

\* C15: the editor's value is always one root element of kind math, with no
\* parent: setValue, insert, backspace, delete and insertNewline neither
\* remove it nor put an element of another kind in its place
C15_RootIsMath ==
  /\ value \in Ids
  /\ dom[value] # FreeNode
  /\ lcc(dom[value].tag) = "math"
  /\ ParentOf(dom, value) = None
  /\ (lastOp.op \in {"insert", "insertNewline"} /\ lastOp.ran) =>
       value # lastOp.arg
  /\ lastOp.op \in {"backspaceRemove", "deleteRemove"} => value # lastOp.mv

\* a removal has emptied a document that setValue had put in place
C15_Witness ==
  /\ lastOp.op \in {"backspaceRemove", "deleteRemove"}
  /\ lastOp.mv # None
  /\ dom[value].tag = "MATH"
  /\ dom[value].kids = <<>>

\* C16: the blink controller is in one of Blinking, FrozenVisible and
\* Stopped; a click leaves it FrozenVisible with the caret visible, and the
\* caret does not toggle while it is frozen; the end of the quiet period takes
\* it from FrozenVisible to Blinking; destroy() takes it to Stopped from any
\* state, and once Stopped it stays so: no blink and no resume timer fires
C16_BlinkerStateMachine ==
  /\ [](/\ blinker \in {"Blinking", "FrozenVisible", "Stopped"}
        /\ lastOp.op = "handleClick" => (blinker = "FrozenVisible" /\ blinkOn)
        /\ lastOp.op = "destroy" => blinker = "Stopped")
  /\ [][ /\ blinker = "FrozenVisible" => blinkOn' = blinkOn
         /\ lastOp'.op = "blink" => (blinker = "Blinking" /\ blinker' = blinker)
         /\ lastOp'.op = "resume" =>
              (blinker = "FrozenVisible" /\ blinker' = "Blinking")
         /\ blinker = "Stopped" =>
              /\ blinker' = "Stopped"
              /\ blinkOn' = blinkOn
              /\ lastOp'.op \notin {"blink", "resume", "handleClick"} ]_vars

\* destroy() has stopped the controller of an editor that had the focus
C16_Witness ==
  /\ lastOp.op = "destroy"
  /\ blinker = "Stopped"
  /\ focused
  /\ ~attached

\* C20: the focused flag is TRUE exactly when the focus and blur handlers
\* last showed the caret; a blur while the pointer is over the display
\* changes neither and emits no 'blur' event
C20_FocusedTracksCaret ==
  /\ [](focused = caretShown)
  /\ [][ (lastOp'.op = "handleBlur" /\ mouseAtDisplay) =>
           /\ UNCHANGED <<focused, caretShown, mouseAtDisplay>>
           /\ ~lastOp'.ran ]_vars
  /\ [][ (lastOp'.op = "handleBlur" /\ ~mouseAtDisplay) =>
           (~focused' /\ ~caretShown' /\ lastOp'.ran) ]_vars
  /\ [][ lastOp'.op \in {"handleMouseenter", "handleMouseleave"} =>
           UNCHANGED <<focused, caretShown>> ]_vars

\* the input has lost the focus with the pointer over the display, and the
\* editor still counts as focused
C20_Witness ==
  /\ lastOp.op = "handleBlur"
  /\ ~lastOp.ran
  /\ mouseAtDisplay
  /\ focused
  /\ caretShown
  /\ ~domFocus

\* C17: while the editor is readonly and the Position is not editable, no
\* insert, insertNewline, backspace or delete changes the tree or the
\* Position
C17_ReadonlyBlocksEdits ==
  [][ (/\ readonly
       /\ ~isEditable(dom, position)
       /\ lastOp'.op \in {"insert", "insertNewline", "backspaceRemove",
                          "deleteRemove"}) =>
      (SameTree /\ position' = position) ]_vars

\* C18: insertNewline inserts nothing while allowNewlines is off, and the
\* line break it inserts is a child of the document root
C18_NewlineAtTopLevel ==
  /\ \A n \in Ids : dom[n].tag = "mspace" => allowNewlines
  /\ (lastOp.op = "insertNewline" /\ lastOp.ran) =>
       /\ dom[lastOp.arg].tag = "mspace"
       /\ ParentOf(dom, lastOp.arg) = value

\* C19: the Tree works on the editor's current value: once a handler has
\* returned, and so before the next click, move or edit, the Tree's root is
\* the value, also when setValue ran before the renderer was ready
C19_TreeOnCurrentValue ==
  treeRoot = value

====
